---- MODULE Spec2Model ----
EXTENDS Integers, Sequences, FiniteSets, TLC

(***************************************************************************)
(* Model of the conference server (src/server.py), its frame cipher        *)
(* (src/security.py) and the adaptive video engine (src/video_engine.py).  *)
(*                                                                         *)
(*   Spec           the server: one handler task per websocket and the     *)
(*                  GUI thread, at await granularity                       *)
(*   SpecBroadcast  the handlers' registry steps and the broadcaster task  *)
(*   SpecMgr        ConnectionManager.connect / disconnect as methods      *)
(*   SpecEngine     AdaptiveVideoEngine.adjust_quality / set_manual_mode   *)
(*   SpecAdapt      runs of equal quality signals of step 5                *)
(*   SpecCipher     one VideoEncryptor exchange, byte by byte, and the     *)
(*                  receive loop fed with its packet                       *)
(*   SpecKx         two E2EEHandlers deriving their shared key             *)
(***************************************************************************)

VARIABLES
    active_connections,  \* ConnectionManager.active_connections (a list)
    lock,                \* ConnectionManager.lock: its holder, or NoOwner
    pc,                  \* position of each websocket_endpoint task
    last_rx,             \* websocket_endpoint: the locals of the last loop turn
    client_frames,       \* the global dict client_frames
    gui_queue,           \* number of tokens in the global gui_queue
    outbox,              \* per websocket: what the server has sent to it
    bpc,                 \* position of the broadcast_camera_loop task
    bframe,              \* number of camera frames captured so far
    connections,         \* broadcast: the local snapshot `connections`
    bidx,                \* broadcast: position of the for loop in it
    bhist,               \* history: snapshot and send attempts of each broadcast
    cipher,              \* a VideoEncryptor exchange: key, payload, packet, result
    kx,                  \* two E2EEHandler objects and the keys they derived
    arrivals,            \* history: websockets in the order connect() appended them
    departed,            \* history: websockets disconnect() was called for
    last_call,           \* history: the last completed method call
    current_quality,     \* AdaptiveVideoEngine.current_quality
    current_resolution   \* AdaptiveVideoEngine.current_resolution

vars == << active_connections, lock, pc, last_rx, client_frames,
           gui_queue, outbox, bpc, bframe, connections, bidx, bhist,
           cipher, kx,
           arrivals, departed, last_call, current_quality, current_resolution >>

serverVars == << active_connections, lock, pc, last_rx,
                 client_frames, gui_queue, outbox, bpc, bframe, connections,
                 bidx >>

engineVars == << current_quality, current_resolution >>

histVars == << arrivals, departed, last_call >>

(***************************************************************************)
(* Bounds                                                                  *)
(***************************************************************************)
NPeers == 2

NSockets == 4

MaxFrames == 2

MaxAmount == 12

MaxLevel == 100

MaxRun == 19

MaxPayload == 2

MaxNonce == 2

MaxScalar == 6

Peers == 1..NPeers

Sockets == 1..NSockets

Amounts == (0 - MaxAmount)..MaxAmount

Levels == (0 - MaxLevel)..MaxLevel

NoOwner == 0

Broadcaster == NPeers + 1

NoCall == [op |-> "none", arg |-> 0]

NoBroadcasts == [snap |-> <<>>, att |-> <<>>]



Range(s) == {s[i] : i \in 1..Len(s)}

(***************************************************************************)
(* AdaptiveVideoEngine                                                     *)
(***************************************************************************)
MAX_QUALITY == 95

MIN_QUALITY == 10

LOW_BELOW == 30

MED_BELOW == 60

DEFAULT_QUALITY == 85

RES_LOW == <<320, 240>>

RES_MED == <<480, 360>>

RES_HIGH == <<640, 480>>

\* the two clamping ifs of adjust_quality, in the order the code runs them
ClampNoFloor(q) == IF q > MAX_QUALITY THEN MAX_QUALITY ELSE q

Clamp(q) ==
    LET q1 == IF q > MAX_QUALITY THEN MAX_QUALITY ELSE q
    IN  IF q1 < MIN_QUALITY THEN MIN_QUALITY ELSE q1

\* the if / elif / else ladder of adjust_quality
ResolutionForOffByOne(q) ==
    IF q <= LOW_BELOW THEN RES_LOW
    ELSE IF q <= MED_BELOW THEN RES_MED
    ELSE RES_HIGH

ResolutionFor(q) ==
    IF q < LOW_BELOW THEN RES_LOW
    ELSE IF q < MED_BELOW THEN RES_MED
    ELSE RES_HIGH

\* adjust_quality run on an engine whose current_quality is q
adjust_quality(q, amount) ==
    /\ current_quality' = Clamp(q + amount)
    /\ current_resolution' = ResolutionFor(Clamp(q + amount))

\* set_manual_mode assigns the level and then calls adjust_quality(0)
set_manual_mode(quality_level) == adjust_quality(quality_level, 0)

InitEngine ==
    /\ current_quality = DEFAULT_QUALITY
    /\ current_resolution = RES_HIGH

AdjustQuality ==
    \E amount \in Amounts :
        /\ adjust_quality(current_quality, amount)
        /\ last_call' = [op |-> "adjust_quality", arg |-> amount]

SetManualMode ==
    \E level \in Levels :
        /\ set_manual_mode(level)
        /\ last_call' = [op |-> "set_manual_mode", arg |-> level]

\* The sender's controller: the size of the step by which a feedback signal
\* moves the quality, and the calls it makes on the engine
STEP == 5

NoRun == [op |-> "none", arg |-> 0, from |-> 0, run |-> 0]

\* one more signal of kind op: the length of the run of equal signals it
\* continues, and the quality that run started from
RunAfter(op, amount) ==
    IF last_call.op = op
    THEN [op |-> op, arg |-> amount, from |-> last_call.from,
          run |-> last_call.run + 1]
    ELSE [op |-> op, arg |-> amount, from |-> current_quality, run |-> 1]

DecreaseSignal ==
    /\ RunAfter("decrease", 0 - STEP).run <= MaxRun
    /\ adjust_quality(current_quality, 0 - STEP)
    /\ last_call' = RunAfter("decrease", 0 - STEP)

IncreaseSignal ==
    /\ RunAfter("increase", STEP).run <= MaxRun
    /\ adjust_quality(current_quality, STEP)
    /\ last_call' = RunAfter("increase", STEP)

\* any state the engine can be in
InitAnyQuality ==
    /\ current_quality \in MIN_QUALITY..MAX_QUALITY
    /\ current_resolution = ResolutionFor(current_quality)

(***************************************************************************)
(* VideoEncryptor (AES-256-GCM), abstracted: a packet records its length,  *)
(* the key its tag verifies under (NoKey when it verifies under none) and  *)
(* the plaintext it carries.                                               *)
(***************************************************************************)
NONCE_LEN == 12

TAG_LEN == 16

GLOBAL_AES_KEY == "PSK"

NoKey == "none"

NoData == [len |-> 0, tagkey |-> NoKey, body |-> "nothing"]

NoPlain == "None"

\* what a client may put on the wire
Packets ==
    { [len |-> 10,    tagkey |-> NoKey,          body |-> "jpeg"],
      [len |-> 28,    tagkey |-> GLOBAL_AES_KEY, body |-> ""],
      [len |-> 5000,  tagkey |-> GLOBAL_AES_KEY, body |-> "jpeg"],
      [len |-> 50000, tagkey |-> GLOBAL_AES_KEY, body |-> "jpeg"],
      [len |-> 20000, tagkey |-> GLOBAL_AES_KEY, body |-> "junk"],
      [len |-> 50000, tagkey |-> NoKey,          body |-> "jpeg"] }

decrypt_frame_unchecked(key, encrypted_packet) == encrypted_packet.body

\* None when the packet is too short to hold nonce and tag or the tag does
\* not verify under key (every exception is caught), else the plaintext
decrypt_frame(key, encrypted_packet) ==
    IF /\ encrypted_packet.len >= NONCE_LEN + TAG_LEN
       /\ encrypted_packet.tagkey = key
    THEN encrypted_packet.body
    ELSE NoPlain

NoRx == [ws |-> 0, data |-> NoData, decrypted_frame |-> NoPlain, img |-> 0]

\* cv2.imdecode: an image for JPEG bytes, None for anything else
NoImage == 0

imdecode(plain, len) == IF plain = "jpeg" THEN len ELSE NoImage

(***************************************************************************)
(* VideoEncryptor, byte by byte.  The packet is the sequence of bytes the  *)
(* code builds and slices.  AES-GCM itself is symbolic: a ciphertext byte  *)
(* names the key, nonce, position and plaintext byte it encrypts, a tag    *)
(* byte names the key, nonce and ciphertext it authenticates; x is 1 in a  *)
(* byte one of whose bits was flipped.                                     *)
(***************************************************************************)
Keys == {GLOBAL_AES_KEY, "OTHER"}

NonceIds == 1..MaxNonce

PayloadBytes == {"J", "x"}

RECURSIVE SeqsUpTo(_, _)
SeqsUpTo(S, n) ==
    IF n = 0 THEN {<<>>}
    ELSE LET shorter == SeqsUpTo(S, n - 1)
         IN  shorter \cup {Append(q, b) : q \in shorter, b \in S}

Payloads == SeqsUpTo(PayloadBytes, MaxPayload)

\* os.urandom(12)
NonceBytes(id) ==
    [j \in 1..NONCE_LEN |->
        [k |-> "nonce", key |-> "", n |-> <<id>>, p |-> "", ct |-> <<>>,
         j |-> j, x |-> 0]]

\* encryptor.update(frame_bytes) + encryptor.finalize()
GCMEncrypt(key, nonce, frame_bytes) ==
    [i \in 1..Len(frame_bytes) |->
        [k |-> "ct", key |-> key, n |-> nonce, p |-> frame_bytes[i],
         ct |-> <<>>, j |-> i, x |-> 0]]

\* encryptor.tag, and the tag finalize() of the decryptor compares with
GCMTag(key, nonce, ciphertext) ==
    [j \in 1..TAG_LEN |->
        [k |-> "tag", key |-> key, n |-> nonce, p |-> "", ct |-> ciphertext,
         j |-> j, x |-> 0]]

\* decryptor.update(ciphertext): the plaintext byte of a ciphertext byte made
\* under this key and nonce at this position, some other byte otherwise
GCMDecrypt(key, nonce, ciphertext) ==
    [i \in 1..Len(ciphertext) |->
        LET b == ciphertext[i]
        IN  IF b.k = "ct" /\ b.key = key /\ b.n = nonce /\ b.j = i /\ b.x = 0
            THEN b.p ELSE "?"]

\* flipping one bit of a byte gives another byte
FlipBit(b) == [b EXCEPT !.x = 1 - @]

\* the Python slice s[a:b]
Slice(s, a, b) ==
    LET hi == IF b < Len(s) THEN b ELSE Len(s)
    IN  IF a >= hi THEN <<>> ELSE SubSeq(s, a + 1, hi)

\* return nonce + encryptor.tag + ciphertext
encrypt_frame_tag_last(key, id, frame_bytes) ==
    LET nonce == NonceBytes(id)
        ciphertext == GCMEncrypt(key, nonce, frame_bytes)
    IN  nonce \o ciphertext \o GCMTag(key, nonce, ciphertext)

encrypt_frame(key, id, frame_bytes) ==
    LET nonce == NonceBytes(id)
        ciphertext == GCMEncrypt(key, nonce, frame_bytes)
    IN  nonce \o GCMTag(key, nonce, ciphertext) \o ciphertext

NoBytes == [ok |-> FALSE, bytes |-> <<>>]

decrypt_packet_no_verify(key, encrypted_packet) ==
    LET nonce == Slice(encrypted_packet, 0, NONCE_LEN)
        ciphertext == Slice(encrypted_packet, NONCE_LEN + TAG_LEN,
                            Len(encrypted_packet))
    IN  [ok |-> TRUE, bytes |-> GCMDecrypt(key, nonce, ciphertext)]

\* decrypt_frame on the bytes: the three slices; modes.GCM raises on a tag
\* shorter than 16 bytes and finalize() on a tag that does not verify, and
\* the except clause turns either into None
decrypt_packet(key, encrypted_packet) ==
    LET nonce == Slice(encrypted_packet, 0, NONCE_LEN)
        tag == Slice(encrypted_packet, NONCE_LEN, NONCE_LEN + TAG_LEN)
        ciphertext == Slice(encrypted_packet, NONCE_LEN + TAG_LEN,
                            Len(encrypted_packet))
    IN  IF Len(tag) < TAG_LEN THEN NoBytes
        ELSE IF tag # GCMTag(key, nonce, ciphertext) THEN NoBytes
        ELSE [ok |-> TRUE, bytes |-> GCMDecrypt(key, nonce, ciphertext)]

\* cv2.imdecode on plaintext bytes: an image when they start a JPEG
imdecode_bytes(plain) ==
    IF plain # <<>> /\ plain[1] = "J" THEN Len(plain) ELSE NoImage

NoCipher ==
    [stage |-> "new", key |-> "", sent |-> <<>>, packet |-> <<>>,
     damage |-> "none", rkey |-> "", out |-> NoBytes]

NoRxBytes == [ws |-> 0, data |-> <<>>, decrypted_frame |-> NoBytes, img |-> 0]

(***************************************************************************)
(* E2EEHandler.  The curve group is stood for by the multiplicative group  *)
(* modulo a small prime: a private key is a scalar, the public key the     *)
(* generator raised to it, and the ECDH exchange the peer's public key     *)
(* raised to the own scalar.  PEM and HKDF are symbolic.                   *)
(***************************************************************************)
CURVE_P == 23

CURVE_G == 5

HKDF_LENGTH == 32

Scalars == 1..MaxScalar

RECURSIVE PowMod(_, _)
PowMod(b, n) == IF n = 0 THEN 1 ELSE (b * PowMod(b, n - 1)) % CURVE_P

\* self.private_key.public_key()
public_key(private_key) == PowMod(CURVE_G, private_key)

\* public_bytes(encoding=PEM, format=SubjectPublicKeyInfo)
public_bytes(pub) == [pem |-> "PUBLIC KEY", point |-> pub]

\* serialization.load_pem_public_key
load_pem_public_key(bytes) == bytes.point

\* an exchange that leaves the peer's key out
exchange_own_key(private_key, peer_public_key) ==
    PowMod(CURVE_G, private_key)

\* self.private_key.exchange(ec.ECDH(), peer_public_key)
exchange(private_key, peer_public_key) ==
    PowMod(peer_public_key, private_key)

\* HKDF(SHA256, length=32, salt=None, info=...).derive(shared_secret)
HKDF(shared_secret) ==
    [len |-> HKDF_LENGTH, ikm |-> shared_secret, salt |-> "None",
     info |-> "video call key exchange"]

derive_shared_secret(private_key, peer_public_key_bytes) ==
    LET peer_public_key == load_pem_public_key(peer_public_key_bytes)
        shared_secret == exchange(private_key, peer_public_key)
    IN  HKDF(shared_secret)

\* self.shared_key = None
NoSharedKey == [len |-> 0, ikm |-> 0, salt |-> "", info |-> ""]

NoKx ==
    [stage |-> "new", skA |-> 0, skB |-> 0,
     pkA |-> public_bytes(0), pkB |-> public_bytes(0),
     keyA |-> NoSharedKey, keyB |-> NoSharedKey]

(***************************************************************************)
(* ConnectionManager                                                       *)
(***************************************************************************)
RECURSIVE RemoveFirst(_, _)
RemoveFirst(s, x) ==
    IF s = <<>> THEN <<>>
    ELSE IF Head(s) = x THEN Tail(s)
    ELSE <<Head(s)>> \o RemoveFirst(Tail(s), x)

\* body of connect under the lock
ConnectPrepend(conns, ws) == <<ws>> \o conns

Connect(conns, ws) == Append(conns, ws)

\* body of disconnect under the lock
DisconnectNoCheck(conns, ws) ==
    IF conns = <<>> THEN conns
    ELSE IF ws \in Range(conns) THEN RemoveFirst(conns, ws)
    ELSE Tail(conns)

Disconnect(conns, ws) ==
    IF ws \in Range(conns) THEN RemoveFirst(conns, ws) ELSE conns

\* async with self.lock: the lock can be taken when nobody holds it
LockFreeIgnored(l) == TRUE

LockFree(l) == l = NoOwner

\* the connections a handler sends a frame received from ws to: the receive
\* loop of websocket_endpoint sends nothing
RelayToOthers(conns, ws) == Range(conns) \ {ws}

RelayTargets(conns, ws) == {}

\* the text the handler sends back to the sender of a frame of length len:
\* the receive loop sends nothing
NoSignal == "none"

ControlSignalBySize(len) ==
    IF len > 40000 THEN "ADAPT:LOW"
    ELSE IF len < 10000 THEN "ADAPT:HIGH"
    ELSE NoSignal

ControlSignal(len) == NoSignal

(***************************************************************************)
(* websocket_endpoint: one task per websocket                              *)
(***************************************************************************)
CameraMsg(n) == [kind |-> "camera", src |-> 0, n |-> n, text |-> ""]

RelayMsg(ws, len) == [kind |-> "relay", src |-> ws, n |-> len, text |-> ""]

TextMsg(ws, sig) == [kind |-> "text", src |-> ws, n |-> 0, text |-> sig]

\* await websocket.accept() succeeded
HAccept(ws) ==
    /\ pc[ws] = "idle"
    /\ pc' = [pc EXCEPT ![ws] = "lock_c"]
    /\ UNCHANGED << bhist, active_connections, lock, last_rx,
                    client_frames, gui_queue, outbox, bpc, bframe,
                    connections, bidx >>

\* await websocket.accept() raised: the task ends before it registers
HAcceptFails(ws) ==
    /\ pc[ws] = "idle"
    /\ pc' = [pc EXCEPT ![ws] = "failed"]
    /\ UNCHANGED << bhist, active_connections, lock, last_rx, client_frames,
                    gui_queue, outbox, bpc, bframe, connections, bidx >>

\* connect: async with self.lock
HConnAcquire(ws) ==
    /\ pc[ws] = "lock_c"
    /\ LockFree(lock)
    /\ lock' = ws
    /\ pc' = [pc EXCEPT ![ws] = "conn_cs"]
    /\ UNCHANGED << bhist, active_connections, last_rx, client_frames,
                    gui_queue, outbox, bpc, bframe, connections, bidx >>

\* connect: the append, and the release of the lock
HConnBody(ws) ==
    /\ pc[ws] = "conn_cs"
    /\ active_connections' = Connect(active_connections, ws)
    /\ lock' = NoOwner
    /\ pc' = [pc EXCEPT ![ws] = "recv"]
    /\ UNCHANGED << bhist, last_rx, client_frames, gui_queue, outbox,
                    bpc, bframe, connections, bidx >>

\* gui_queue.empty()
QueueEmptyIgnored(q) == TRUE

QueueEmpty(q) == q = 0

\* the rest of a turn of the receive loop once the frame is decrypted and
\* decoded: the image, if any, is stored and the queue is looked at; when it
\* is found empty the put follows in the same turn of the event loop
StoreFrame(ws, pkt, plain, img, len) ==
    LET targets == RelayTargets(active_connections, ws)
        sig == ControlSignal(len)
    IN  /\ pc[ws] = "recv"
        /\ last_rx' = [ws |-> ws, data |-> pkt, decrypted_frame |-> plain,
                        img |-> img]
        /\ client_frames' = IF img # NoImage
                            THEN (ws :> img) @@ client_frames
                            ELSE client_frames
        /\ pc' = IF img # NoImage /\ QueueEmpty(gui_queue)
                 THEN [pc EXCEPT ![ws] = "put"]
                 ELSE pc
        /\ outbox' = [c \in DOMAIN outbox |->
                LET relayed == IF c \in targets
                               THEN Append(outbox[c], RelayMsg(ws, len))
                               ELSE outbox[c]
                IN  IF c = ws /\ sig # NoSignal
                    THEN Append(relayed, TextMsg(ws, sig))
                    ELSE relayed]
        /\ UNCHANGED << bhist, active_connections, lock, gui_queue, bpc,
                        bframe, connections, bidx >>

\* one turn of the receive loop: receive_bytes returned pkt
HRecvFrame(ws) ==
    \E pkt \in Packets :
        LET plain == decrypt_frame(GLOBAL_AES_KEY, pkt)
            img == IF plain # NoPlain /\ plain # ""
                   THEN imdecode(plain, pkt.len) ELSE NoImage
        IN  StoreFrame(ws, pkt, plain, img, pkt.len)

\* gui_queue.put("REDRAW"), after the queue was found empty
HPut(ws) ==
    /\ pc[ws] = "put"
    /\ gui_queue' = gui_queue + 1
    /\ pc' = [pc EXCEPT ![ws] = "recv"]
    /\ UNCHANGED << bhist, active_connections, lock, last_rx, client_frames,
                    outbox, bpc, bframe, connections, bidx >>

\* the event loop runs one task at a time: no other task runs while a
\* handler is between looking at the queue and its put (no await there)
LoopIdle == \A ws \in DOMAIN pc : pc[ws] # "put"

\* receive_bytes raised WebSocketDisconnect: the except clause starts
HRecvDisconnect(ws) ==
    /\ pc[ws] = "recv"
    /\ pc' = [pc EXCEPT ![ws] = "lock_d"]
    /\ UNCHANGED << bhist, active_connections, lock, last_rx,
                    client_frames, gui_queue, outbox, bpc, bframe,
                    connections, bidx >>

\* the loop raised anything else (receive_bytes on a text message raises
\* KeyError): no except clause matches and the task ends
HRecvError(ws) ==
    /\ pc[ws] = "recv"
    /\ pc' = [pc EXCEPT ![ws] = "crashed"]
    /\ UNCHANGED << bhist, active_connections, lock, last_rx,
                    client_frames, gui_queue, outbox, bpc, bframe,
                    connections, bidx >>

\* disconnect: async with self.lock
HDiscAcquire(ws) ==
    /\ pc[ws] = "lock_d"
    /\ LockFree(lock)
    /\ lock' = ws
    /\ pc' = [pc EXCEPT ![ws] = "disc_cs"]
    /\ UNCHANGED << bhist, active_connections, last_rx, client_frames,
                    gui_queue, outbox, bpc, bframe, connections, bidx >>

\* an except clause that leaves the client's frame where it is
DelFrameSkipped(frames, ws) == frames

\* if client_id in client_frames: del client_frames[client_id]
DelFrame(frames, ws) == [c \in DOMAIN frames \ {ws} |-> frames[c]]

\* disconnect: the guarded remove and the release, then the del of the
\* client's entry of client_frames (no await in between)
HDiscBody(ws) ==
    /\ pc[ws] = "disc_cs"
    /\ active_connections' = Disconnect(active_connections, ws)
    /\ lock' = NoOwner
    /\ client_frames' = DelFrame(client_frames, ws)
    /\ pc' = [pc EXCEPT ![ws] = "done"]
    /\ UNCHANGED << bhist, last_rx, gui_queue, outbox, bpc, bframe,
                    connections, bidx >>

(***************************************************************************)
(* One VideoEncryptor exchange: a sender encrypts a payload, the packet    *)
(* may be damaged on the way, and it is decrypted by a VideoEncryptor or   *)
(* received by the handler of websocket 1                                  *)
(***************************************************************************)
CEncrypt ==
    /\ cipher.stage = "new"
    /\ \E key \in Keys, id \in NonceIds, frame_bytes \in Payloads :
          cipher' = [stage |-> "sent", key |-> key, sent |-> frame_bytes,
                     packet |-> encrypt_frame(key, id, frame_bytes),
                     damage |-> "none", rkey |-> "", out |-> NoBytes]
    /\ UNCHANGED << serverVars, bhist >>

\* one bit of the packet is flipped
CFlip ==
    /\ cipher.stage = "sent"
    /\ cipher.damage = "none"
    /\ \E i \in 1..Len(cipher.packet) :
          cipher' = [cipher EXCEPT !.packet[i] = FlipBit(@),
                                   !.damage = "flip"]
    /\ UNCHANGED << serverVars, bhist >>

\* the packet is cut short
CTruncate ==
    /\ cipher.stage = "sent"
    /\ cipher.damage = "none"
    /\ \E n \in 0..(Len(cipher.packet) - 1) :
          cipher' = [cipher EXCEPT !.packet = Slice(@, 0, n),
                                   !.damage = "cut"]
    /\ UNCHANGED << serverVars, bhist >>

\* VideoEncryptor(key).decrypt_frame(packet)
CDecrypt ==
    /\ cipher.stage = "sent"
    /\ \E key \in Keys :
          cipher' = [cipher EXCEPT !.stage = "decrypted", !.rkey = key,
                                   !.out = decrypt_packet(key, cipher.packet)]
    /\ UNCHANGED << serverVars, bhist >>

\* one turn of the receive loop of websocket 1: receive_bytes returned the
\* packet
CRecvFrame ==
    LET plain == decrypt_packet(GLOBAL_AES_KEY, cipher.packet)
        img == IF plain.ok /\ plain.bytes # <<>>
               THEN imdecode_bytes(plain.bytes) ELSE NoImage
    IN  /\ cipher.stage = "sent"
        /\ StoreFrame(1, cipher.packet, plain, img, Len(cipher.packet))
        /\ cipher' = [cipher EXCEPT !.stage = "decrypted",
                                    !.rkey = GLOBAL_AES_KEY, !.out = plain]

(***************************************************************************)
(* Two E2EEHandlers, A and B, exchanging public keys                       *)
(***************************************************************************)
\* E2EEHandler() twice: two private keys generated independently
KGenerate ==
    /\ kx.stage = "new"
    /\ \E a \in Scalars, b \in Scalars :
          kx' = [kx EXCEPT !.stage = "generated", !.skA = a, !.skB = b,
                           !.pkA = public_bytes(public_key(a)),
                           !.pkB = public_bytes(public_key(b))]
    /\ UNCHANGED << serverVars, bhist, cipher >>

\* A.derive_shared_secret(B.get_public_key())
KDeriveA ==
    /\ kx.stage = "generated"
    /\ kx.keyA = NoSharedKey
    /\ kx' = [kx EXCEPT !.keyA = derive_shared_secret(kx.skA, kx.pkB)]
    /\ UNCHANGED << serverVars, bhist, cipher >>

\* B.derive_shared_secret(A.get_public_key())
KDeriveB ==
    /\ kx.stage = "generated"
    /\ kx.keyB = NoSharedKey
    /\ kx' = [kx EXCEPT !.keyB = derive_shared_secret(kx.skB, kx.pkA)]
    /\ UNCHANGED << serverVars, bhist, cipher >>

(***************************************************************************)
(* broadcast_camera_loop and ConnectionManager.broadcast                   *)
(***************************************************************************)
\* a frame was captured and encrypted; broadcast starts
\* a broadcast that is not awaited: the loop goes on while it still sends
BroadcastNotAwaited(b) == b \in {"idle", "send"}

\* await manager.broadcast(encrypted_packet): the loop goes on when the call
\* has returned
BroadcastReturned(b) == b = "idle"

\* a for loop inside the try: the first failure ends it
MoreTargetsUnlessFailed(idx, conns, ok) == ok /\ idx < Len(conns)

\* for connection in connections, the try inside the loop
MoreTargets(idx, conns, ok) == idx < Len(conns)

\* an except clause that unregisters the dead connection
ExceptRemove(conns, c) == RemoveFirst(conns, c)

\* except: pass
ExceptPass(conns, c) == conns

BCapture ==
    /\ BroadcastReturned(bpc)
    /\ bframe < MaxFrames
    /\ bframe' = bframe + 1
    /\ bpc' = "lock_b"
    /\ UNCHANGED << bhist, active_connections, lock, pc, last_rx,
                    client_frames, gui_queue, outbox, connections, bidx >>

BAcquire ==
    /\ bpc = "lock_b"
    /\ LockFree(lock)
    /\ lock' = Broadcaster
    /\ bpc' = "b_cs"
    /\ UNCHANGED << bhist, active_connections, pc, last_rx,
                    client_frames, gui_queue, outbox, bframe, connections,
                    bidx >>

\* connections = self.active_connections[:], and the release
BSnapshot ==
    /\ bpc = "b_cs"
    /\ connections' = active_connections
    /\ lock' = NoOwner
    /\ bidx' = 1
    /\ bpc' = IF active_connections = <<>> THEN "idle" ELSE "send"
    /\ bhist' = [bhist EXCEPT !.snap = Append(@, active_connections)]
    /\ UNCHANGED << active_connections, pc, last_rx,
                    client_frames, gui_queue, outbox, bframe >>

\* one turn of the for loop: send_bytes delivers (only to an open socket) or
\* raises, and the except clause passes
BSend ==
    /\ bpc = "send"
    /\ \E ok \in BOOLEAN :
        LET c == connections[bidx]
        IN  /\ ok => pc[c] = "recv"
            /\ outbox' = IF ok
                         THEN [outbox EXCEPT ![c] = Append(@, CameraMsg(bframe))]
                         ELSE outbox
            /\ bhist' = [bhist EXCEPT !.att =
                             Append(@, [n |-> bframe, to |-> c, ok |-> ok])]
            /\ active_connections' =
                   IF ok THEN active_connections
                   ELSE ExceptPass(active_connections, c)
            /\ IF MoreTargets(bidx, connections, ok)
               THEN /\ bidx' = bidx + 1
                    /\ UNCHANGED << bpc, connections >>
               ELSE /\ bidx' = 0
                    /\ bpc' = "idle"
                    /\ connections' = <<>>
    /\ UNCHANGED << lock, pc, last_rx, client_frames, gui_queue, bframe >>

(***************************************************************************)
(* run_gui_loop (the main thread)                                          *)
(***************************************************************************)
GuiGet ==
    /\ gui_queue > 0
    /\ gui_queue' = gui_queue - 1
    /\ UNCHANGED << bhist, active_connections, lock, pc, last_rx,
                    client_frames, outbox, bpc, bframe, connections, bidx >>

(***************************************************************************)
(* Specifications                                                          *)
(***************************************************************************)
InitServer(S) ==
    /\ active_connections = <<>>
    /\ lock = NoOwner
    /\ pc = [ws \in S |-> "idle"]
    /\ last_rx = NoRx
    /\ client_frames = <<>>
    /\ gui_queue = 0
    /\ outbox = [ws \in S |-> <<>>]
    /\ bpc = "idle"
    /\ bframe = 0
    /\ connections = <<>>
    /\ bidx = 0
    /\ bhist = NoBroadcasts

InitHist ==
    /\ arrivals = <<>>
    /\ departed = {}
    /\ last_call = NoCall

InitCrypto ==
    /\ cipher = NoCipher
    /\ kx = NoKx

Init == InitServer(Peers) /\ InitHist /\ InitEngine /\ InitCrypto

Handler(ws) ==
    \/ HAccept(ws)
    \/ HAcceptFails(ws)
    \/ HConnAcquire(ws)
    \/ HConnBody(ws)
    \/ HRecvFrame(ws)
    \/ HRecvDisconnect(ws)
    \/ HRecvError(ws)
    \/ HDiscAcquire(ws)
    \/ HDiscBody(ws)

Next ==
    /\ \/ LoopIdle /\ \E ws \in Peers : Handler(ws)
       \/ \E ws \in Peers : HPut(ws)
       \/ GuiGet
    /\ UNCHANGED << bhist, cipher, kx, arrivals, departed, last_call,
                    current_quality, current_resolution >>

Spec == Init /\ [][Next]_vars

\* the handlers' registry steps together with the broadcaster task
NextBroadcast ==
    /\ \/ \E ws \in Peers :
            \/ HAccept(ws)
            \/ HConnAcquire(ws)
            \/ HConnBody(ws)
            \/ HRecvDisconnect(ws)
            \/ HRecvError(ws)
            \/ HDiscAcquire(ws)
            \/ HDiscBody(ws)
       \/ BCapture
       \/ BAcquire
       \/ BSnapshot
       \/ BSend
    /\ UNCHANGED << cipher, kx, arrivals, departed, last_call,
                    current_quality, current_resolution >>

SpecBroadcast == Init /\ [][NextBroadcast]_vars

\* ConnectionManager.connect(ws) as one call; accept() succeeds once per socket
MConnect(ws) ==
    /\ pc[ws] = "idle"
    /\ active_connections' = Connect(active_connections, ws)
    /\ pc' = [pc EXCEPT ![ws] = "recv"]
    /\ arrivals' = Append(arrivals, ws)
    /\ last_call' = [op |-> "connect", arg |-> ws]
    /\ UNCHANGED departed

\* ConnectionManager.disconnect(ws) as one call, for any socket
MDisconnect(ws) ==
    /\ active_connections' = Disconnect(active_connections, ws)
    /\ pc' = [pc EXCEPT ![ws] = IF @ = "recv" THEN "done" ELSE @]
    /\ departed' = departed \cup {ws}
    /\ last_call' = [op |-> "disconnect", arg |-> ws]
    /\ UNCHANGED arrivals

InitMgr == InitServer(Sockets) /\ InitHist /\ InitEngine /\ InitCrypto

NextMgr ==
    /\ \E ws \in Sockets : MConnect(ws) \/ MDisconnect(ws)
    /\ UNCHANGED << lock, last_rx, client_frames, gui_queue,
                    outbox, bpc, bframe, connections, bidx, bhist,
                    cipher, kx, current_quality, current_resolution >>

SpecMgr == InitMgr /\ [][NextMgr]_vars

NextEngine ==
    /\ AdjustQuality \/ SetManualMode
    /\ UNCHANGED << serverVars, bhist, cipher, kx, arrivals, departed >>

SpecEngine == Init /\ [][NextEngine]_vars

\* a frame websocket 1 sent earlier, and the turn that stored it
FirstFrame == encrypt_frame(GLOBAL_AES_KEY, 1, <<"J">>)

FirstRx ==
    [ws |-> 1, data |-> FirstFrame,
     decrypted_frame |-> decrypt_packet(GLOBAL_AES_KEY, FirstFrame),
     img |-> imdecode_bytes(<<"J">>)]

\* websocket 1 is connected and its handler is in the receive loop, before
\* its first frame or after one frame was stored
InitCipher ==
    /\ active_connections = <<1>>
    /\ lock = NoOwner
    /\ pc = [ws \in Peers |-> IF ws = 1 THEN "recv" ELSE "idle"]
    /\ \/ /\ last_rx = NoRxBytes
          /\ client_frames = <<>>
          /\ gui_queue = 0
       \/ /\ last_rx = FirstRx
          /\ client_frames = (1 :> FirstRx.img)
          /\ gui_queue \in {0, 1}
    /\ outbox = [ws \in Peers |-> <<>>]
    /\ bpc = "idle"
    /\ bframe = 0
    /\ connections = <<>>
    /\ bidx = 0
    /\ bhist = NoBroadcasts
    /\ InitCrypto
    /\ InitHist
    /\ InitEngine

NextCipher ==
    /\ \/ CEncrypt
       \/ CFlip
       \/ CTruncate
       \/ CDecrypt
       \/ LoopIdle /\ CRecvFrame
       \/ HPut(1) /\ UNCHANGED cipher
       \/ GuiGet /\ UNCHANGED cipher
    /\ UNCHANGED << kx, arrivals, departed, last_call, current_quality,
                    current_resolution >>

SpecCipher == InitCipher /\ [][NextCipher]_vars

NextKx ==
    /\ \/ KGenerate
       \/ KDeriveA
       \/ KDeriveB
    /\ UNCHANGED << arrivals, departed, last_call, current_quality,
                    current_resolution >>

SpecKx == Init /\ [][NextKx]_vars

InitAdapt ==
    /\ InitServer(Peers)
    /\ InitCrypto
    /\ arrivals = <<>>
    /\ departed = {}
    /\ last_call = NoRun
    /\ InitAnyQuality

NextAdapt ==
    /\ DecreaseSignal \/ IncreaseSignal
    /\ UNCHANGED << serverVars, bhist, cipher, kx, arrivals, departed >>

SpecAdapt == InitAdapt /\ [][NextAdapt]_vars

(***************************************************************************)
(* Derived notions used by the properties                                  *)
(***************************************************************************)
\* a and b are paired: the server relays each one's frames to the other
Paired(a, b) ==
    /\ b \in RelayTargets(active_connections, a)
    /\ a \in RelayTargets(active_connections, b)

\* the registered peers that have no partner
WaitingPeers ==
    {ws \in Range(active_connections) :
        RelayTargets(active_connections, ws) = {}}

\* the handlers inside the locked body of connect or disconnect
InCriticalSection == {ws \in Peers : pc[ws] \in {"conn_cs", "disc_cs"}}

\* the peers whose connect has completed and whose disconnect has not
ConnectedNotDisconnected ==
    {ws \in Peers : pc[ws] \in {"recv", "put", "lock_d", "disc_cs", "crashed"}}

\* the handlers that have ended, by any path
HandlerEnded == {ws \in DOMAIN pc : pc[ws] \in {"done", "crashed", "failed"}}

(***************************************************************************)
(* Properties                                                              *)
(***************************************************************************)

C4_MutualExclusion ==
    /\ Cardinality(InCriticalSection) <= 1
    /\ \A ws \in InCriticalSection : lock = ws
    /\ Range(active_connections) = ConnectedNotDisconnected
    /\ Len(active_connections) = Cardinality(Range(active_connections))

C4_Contended ==
    \E a, b \in Peers :
        /\ a # b
        /\ pc[a] = "disc_cs"
        /\ pc[b] = "lock_c"
        /\ active_connections = <<a>>

\* C5 (as claimed): no connection whose handler has ended, for whatever
\* reason, remains registered or keeps an entry of client_frames.
C5_EndedHandlerUnregistered ==
    \A ws \in HandlerEnded :
        /\ ws \notin Range(active_connections)
        /\ ws \notin DOMAIN client_frames

\* C6: a disconnect call for a peer that is not registered changes nothing,
\* and after any disconnect call the peer is not registered, so that a second
\* call for the same peer is such a no-op.
C6_DisconnectUnregisteredIsNoOp ==
    [][\A ws \in Sockets :
          last_call' = [op |-> "disconnect", arg |-> ws] =>
              /\ ws \notin Range(active_connections')
              /\ ws \notin Range(active_connections) =>
                     /\ active_connections' = active_connections
                     /\ pc' = pc
                     /\ arrivals' = arrivals]_vars

C6_NoOpHappened ==
    \E ws \in Sockets :
        /\ last_call = [op |-> "disconnect", arg |-> ws]
        /\ pc[ws] = "idle"
        /\ Len(active_connections) >= 2

\* C7: nothing the server has sent to a connection stems from a frame
\* received from another peer.
C7_NoOutputToOtherPeers ==
    \A c \in Peers :
        \A i \in 1..Len(outbox[c]) : outbox[c][i].src \in {0, c}

C7_FrameProcessedBesideOtherPeer ==
    \E a, b \in Peers :
        /\ a # b
        /\ last_rx.ws = a
        /\ last_rx.img # NoImage
        /\ pc[a] = "recv"
        /\ pc[b] = "recv"
        /\ outbox[b] = <<>>

C9_QualityInRange ==
    /\ current_quality \in 10..95
    /\ last_call.op = "set_manual_mode" =>
           current_quality = (IF last_call.arg > 95 THEN 95
                              ELSE IF last_call.arg < 10 THEN 10
                              ELSE last_call.arg)

C9_ManualBelowFloor ==
    /\ last_call.op = "set_manual_mode"
    /\ last_call.arg < 10
    /\ current_quality = 10

\* C10: the resolution is 320x240 iff quality < 30, 480x360 iff
\* 30 <= quality < 60, and 640x480 iff quality >= 60.
C10_ResolutionFollowsQuality ==
    /\ current_resolution = <<320, 240>> <=> current_quality < 30
    /\ current_resolution = <<480, 360>> <=>
           (30 <= current_quality /\ current_quality < 60)
    /\ current_resolution = <<640, 480>> <=> current_quality >= 60

C10_AtLowerEdgeOfMed ==
    /\ current_quality = 30
    /\ current_resolution = <<480, 360>>
    /\ last_call.op = "adjust_quality"

\* C11: in a run of decrease signals of step 5 the quality never rises, it is
\* the quality the run started from lowered by 5 per signal and stopped at
\* 10, so that after 17 signals it is 10 with resolution 320x240, and a
\* decrease at 10 changes nothing; symmetrically for increase signals, 95
\* and 640x480.
C11_RunsConverge ==
    /\ [](/\ last_call.op = "decrease" =>
              /\ current_quality =
                     (IF last_call.from - 5 * last_call.run < 10 THEN 10
                      ELSE last_call.from - 5 * last_call.run)
              /\ last_call.run >= 17 =>
                     current_quality = 10 /\ current_resolution = <<320, 240>>
          /\ last_call.op = "increase" =>
              /\ current_quality =
                     (IF last_call.from + 5 * last_call.run > 95 THEN 95
                      ELSE last_call.from + 5 * last_call.run)
              /\ last_call.run >= 17 =>
                     current_quality = 95 /\ current_resolution = <<640, 480>>)
    /\ [][/\ last_call'.op = "decrease" =>
              /\ current_quality' <= current_quality
              /\ current_quality = 10 =>
                     /\ current_quality' = 10
                     /\ current_resolution' = current_resolution
          /\ last_call'.op = "increase" =>
              /\ current_quality' >= current_quality
              /\ current_quality = 95 =>
                     /\ current_quality' = 95
                     /\ current_resolution' = current_resolution]_vars

C11_SeventeenFromCeiling ==
    /\ last_call.op = "decrease"
    /\ last_call.from = 95
    /\ last_call.run = 18
    /\ current_quality = 10
    /\ current_resolution = <<320, 240>>

\* C12: a packet is nonce (12 bytes), tag (16 bytes), ciphertext, 28 bytes
\* longer than the payload, and decrypting the undamaged packet under the
\* key it was encrypted under returns exactly the payload, the empty one
\* included.
C12_RoundTrip ==
    (cipher.stage # "new" /\ cipher.damage = "none") =>
        /\ Len(cipher.packet) = Len(cipher.sent) + 28
        /\ \A i \in 1..Len(cipher.packet) :
               cipher.packet[i].k = (IF i <= 12 THEN "nonce"
                                     ELSE IF i <= 28 THEN "tag" ELSE "ct")
        /\ (cipher.stage = "decrypted" /\ cipher.rkey = cipher.key) =>
               /\ cipher.out.ok
               /\ cipher.out.bytes = cipher.sent

C12_EmptyPayloadRoundTrip ==
    /\ cipher.stage = "decrypted"
    /\ cipher.damage = "none"
    /\ cipher.rkey = cipher.key
    /\ cipher.sent = <<>>
    /\ cipher.out = [ok |-> TRUE, bytes |-> <<>>]

\* C13: decrypting a packet shorter than 28 bytes, one with a flipped bit or
\* one under another key yields no plaintext, and a turn of the receive loop
\* that decrypts to nothing leaves client_frames, the queue and the position
\* of every handler as they were.
C13_NoPlaintextOnFailure ==
    /\ [](cipher.stage = "decrypted" =>
            ((\/ Len(cipher.packet) < 28
              \/ cipher.damage # "none"
              \/ cipher.rkey # cipher.key) => cipher.out = NoBytes))
    /\ [][(last_rx' # last_rx /\ ~last_rx'.decrypted_frame.ok) =>
             /\ client_frames' = client_frames
             /\ gui_queue' = gui_queue
             /\ pc' = pc
             /\ last_rx'.img = NoImage]_vars

C13_FlippedFrameDiscarded ==
    /\ cipher.stage = "decrypted"
    /\ cipher.damage = "flip"
    /\ last_rx.data = cipher.packet
    /\ last_rx.decrypted_frame = NoBytes
    /\ 1 \in DOMAIN client_frames
    /\ pc[1] = "recv"

\* C14: once both handlers have derived, from the other's public key, their
\* shared key, the two keys are equal and 32 bytes long, whichever two
\* private keys were generated.
C14_SharedKeysAgree ==
    (kx.keyA # NoSharedKey /\ kx.keyB # NoSharedKey) =>
        /\ kx.keyA = kx.keyB
        /\ kx.keyA.len = 32

C14_BothDerivedFromDistinctKeys ==
    /\ kx.skA # kx.skB
    /\ kx.pkA # kx.pkB
    /\ kx.keyA # NoSharedKey
    /\ kx.keyB = kx.keyA

\* the send attempts of frame n, in the order they were made, and their
\* targets
AttemptsOf(n) == SelectSeq(bhist.att, LAMBDA a : a.n = n)

TargetsOf(n) == [i \in 1..Len(AttemptsOf(n)) |-> AttemptsOf(n)[i].to]

Sending(n) == bpc = "send" /\ n = bframe

\* C15: every message is attempted exactly once to each connection of its
\* snapshot, whether or not an earlier attempt of it failed: the attempts of
\* a finished broadcast are its snapshot, those of the running one the part
\* of the snapshot already iterated, and a failed attempt is followed by the
\* next one, never repeated.
C15_EachTargetAttemptedOnce ==
    \A n \in 1..Len(bhist.snap) :
        /\ TargetsOf(n) = IF Sending(n)
                          THEN SubSeq(bhist.snap[n], 1, bidx - 1)
                          ELSE bhist.snap[n]
        /\ ~Sending(n) =>
              \A c \in Range(bhist.snap[n]) :
                  Cardinality({i \in 1..Len(bhist.att) :
                      bhist.att[i].n = n /\ bhist.att[i].to = c}) = 1

C15_FailureThenOtherSends ==
    /\ Len(bhist.att) >= 3
    /\ bhist.att[1].n = 1 /\ ~bhist.att[1].ok
    /\ bhist.att[2].n = 1 /\ bhist.att[2].to # bhist.att[1].to
    /\ \E i \in 3..Len(bhist.att) :
          bhist.att[i].n = 2 /\ bhist.att[i].to = bhist.att[1].to

\* C16: the attempts are made in frame order: an attempt of a frame is never
\* followed by an attempt of an earlier frame, each outbox holds the camera
\* frames in increasing order, and when frame n+1 is attempted every target
\* of frame n has had its attempt.
C16_FramesInOrder ==
    /\ \A i, j \in 1..Len(bhist.att) :
          i < j => bhist.att[i].n <= bhist.att[j].n
    /\ \A c \in DOMAIN outbox : \A i, j \in 1..Len(outbox[c]) :
          (i < j /\ outbox[c][i].kind = "camera" /\ outbox[c][j].kind = "camera")
              => outbox[c][i].n < outbox[c][j].n
    /\ \A i \in 1..Len(bhist.att) : \A n \in 1..(bhist.att[i].n - 1) :
          Len(AttemptsOf(n)) = Len(bhist.snap[n])

C16_TwoFramesToTwoPeers ==
    /\ Len(bhist.snap) = 2
    /\ Len(bhist.snap[1]) = 2
    /\ \E c \in DOMAIN outbox :
          outbox[c] = << CameraMsg(1), CameraMsg(2) >>

\* C17: a message is attempted only to connections of its snapshot and at
\* most once to each, and no step of broadcast changes active_connections:
\* a connection registered after the snapshot gets no attempt of that
\* message and one whose send failed stays registered.
C17_BroadcastLeavesRegistry ==
    /\ [](\A i \in 1..Len(bhist.att) :
            /\ \E k \in 1..Len(bhist.snap[bhist.att[i].n]) :
                  bhist.snap[bhist.att[i].n][k] = bhist.att[i].to
            /\ \A j \in 1..Len(bhist.att) :
                  (bhist.att[j].n = bhist.att[i].n
                   /\ bhist.att[j].to = bhist.att[i].to) => j = i)
    /\ [][bhist' # bhist => active_connections' = active_connections]_vars

C17_LateJoinerAndFailedStay ==
    /\ bpc = "idle"
    /\ Len(bhist.snap) = 1
    /\ Len(bhist.att) = 1
    /\ ~bhist.att[1].ok
    /\ Len(active_connections) = 2
    /\ active_connections[1] = bhist.att[1].to
    /\ active_connections[2] \notin Range(bhist.snap[1])

MidDisconnect(ws) == pc[ws] \in {"lock_d", "disc_cs"}

\* C18: a client whose disconnect handling has completed has no entry in
\* client_frames, then and ever after, and when no handler is between the
\* WebSocketDisconnect and the end of its handling every key of
\* client_frames is a connection in active_connections.
C18_NoFrameAfterDisconnect ==
    /\ \A ws \in DOMAIN pc : pc[ws] = "done" => ws \notin DOMAIN client_frames
    /\ (\A ws \in DOMAIN pc : ~MidDisconnect(ws)) =>
           DOMAIN client_frames \subseteq Range(active_connections)

C18_FrameRemovedOtherKept ==
    /\ \E ws \in DOMAIN pc :
          /\ pc[ws] = "done"
          /\ last_rx.ws = ws
          /\ last_rx.img # NoImage
          /\ ws \notin DOMAIN client_frames
    /\ client_frames # <<>>

\* C19: gui_queue never holds more than one token, whatever the order of
\* the handlers' turns and the GUI thread's gets: a turn that stored a frame
\* and found the queue empty puts exactly one token, into the still empty
\* queue, and one that found a token puts none.
C19_AtMostOneRedraw ==
    /\ [](gui_queue <= 1)
    /\ [][\A ws \in DOMAIN pc :
            /\ (pc[ws] = "recv" /\ pc'[ws] = "put") =>
                   (gui_queue = 0 /\ ws \in DOMAIN client_frames')
            /\ pc[ws] = "put" =>
                   \/ pc'[ws] = "put" /\ gui_queue' = gui_queue
                   \/ pc'[ws] = "recv" /\ gui_queue = 0 /\ gui_queue' = 1
            /\ (/\ pc[ws] = "recv"
                /\ ws \in DOMAIN client_frames'
                /\ \/ ws \notin DOMAIN client_frames
                   \/ client_frames'[ws] # client_frames[ws]) =>
                   pc'[ws] = (IF gui_queue = 0 THEN "put" ELSE "recv")]_vars

C19_UpdateFindsTokenPending ==
    /\ gui_queue = 1
    /\ Cardinality(DOMAIN client_frames) = 2
    /\ \A ws \in DOMAIN client_frames : pc[ws] = "recv"

====
